---- MODULE Spec2Model ----
(***************************************************************************)
(* Network Speed Analyzer: the speed-test sequencer (SpeedTest), the test  *)
(* record store (NetworkAnalyzer.testHistory) and the quality classifier.  *)
(*                                                                         *)
(* Units.  Speeds are kept in tenths of Mbps (the code rounds download and *)
(* upload to one decimal), ping and jitter in ms, packet loss in           *)
(* hundredths of a percent, upload ratios in thousandths.  The thresholds  *)
(* of getNetworkQuality are scaled accordingly (100 Mbps = 1000 tenths).   *)
(*                                                                         *)
(* Atomicity.  JavaScript runs one task at a time: an action is one task   *)
(* (a click handler, a timer callback, a settled network call) together    *)
(* with the promise continuations it triggers, up to the next await of a   *)
(* timer or of the network.  React applies the state updates of a task     *)
(* before the next task runs.                                              *)
(***************************************************************************)
EXTENDS Integers, Sequences, FiniteSets, TLC

VARIABLES
    testHistory,    \* NetworkAnalyzer: useState<NetworkData[]>([])
    isTestRunning,  \* NetworkAnalyzer: useState(false), SpeedTest's isRunning
    networkInfo,    \* NetworkAnalyzer: useState<NetworkInfo | null>(null); {} is null
    currentTest,    \* SpeedTest: useState<Partial<NetworkData>>({})
    testPhase,      \* SpeedTest: useState('idle')
    progress,       \* SpeedTest: useState(0)
    callbackTest,   \* currentTest as closed over by the memoised runSpeedTest
    runs,           \* the invocations of runSpeedTest, in order of their start
    clock,          \* Date.now()
    handed,         \* history variable: every record passed to onTestComplete
    probe,          \* input and output of one classifier call (ClassifierSpec)
    view,           \* TestHistory: searchTerm, qualityFilter, sortField, sortOrder
    event,          \* history variable: the last handler of the views, its
                    \* argument and what it produced (handleSort: the sort
                    \* state it replaced); or the IP lookup and how it went
    isRefreshing,   \* NetworkInfo: useState(false)
    traceroute,     \* NetworkInfo: useState<TracerouteHop[]>([])
    pendingTraces,  \* the 2 s timers of runTraceroute that have not fired yet
    dnsTests,       \* NetworkInfo: useState<{server, latency}[]>([])
    dnsRun          \* the invocation of runDnsTests: where it is, its results

infoVars == <<isRefreshing, traceroute, pendingTraces, dnsTests, dnsRun>>

vars == <<testHistory, isTestRunning, networkInfo, currentTest, testPhase,
          progress, callbackTest, runs, clock, handed, probe, view, event, infoVars>>

(***************************************************************************)
(* Bounds of the model.                                                    *)
(***************************************************************************)
MaxRuns == 1
MaxAppends == 105
MaxProbeDownload == 1010
MaxProbePing == 105
MaxViewRecords == 2
MaxPendingTraces == 2
MaxSortRecords == 3

(***************************************************************************)
(* Program constants.                                                      *)
(***************************************************************************)
PingSamples == 5
SliceEnd == 99
FallbackDownload == 50
ChartWindow == 20

\* The three transfer sizes of measureDownloadSpeed, in MB.
testSizes == <<1, 2, 5>>

(***************************************************************************)
(* Inputs: what the environment (network, timers, Math.random) supplies.   *)
(***************************************************************************)
\* Duration of a settled fetch, ms.
FetchMs == {15}
\* 100 + Math.random() * 50, ms.
FallbackMs == {120}
\* size * 8 / duration of one simulated transfer, tenths of Mbps.
SampleSpeeds == {400, 1000}
\* 0.1 + Math.random() * 0.4, thousandths.
UploadRatios == {100, 499}
\* Math.round(Math.random() * 2 * 100) / 100, hundredths of a percent.
PacketLosses == {137}
\* The answer of the IP lookup.
PublicIPs == {"203.0.113.7"}
\* How the IP lookup goes: the fetch rejects, response.json() throws, or the
\* body is decoded.
IpLookups ==
    {[outcome |-> "fetchRejects", ip |-> ""], [outcome |-> "jsonThrows", ip |-> ""]}
        \cup [outcome : {"decoded"}, ip : PublicIPs]
\* 10 + Math.random() * 40 as measured by performance.now() and rounded, ms.
DnsLatencies == {12, 47}
\* window.location.hostname, navigator.platform, navigator.userAgent and
\* navigator.connection of the browser the page runs in.
Browsers ==
    {[hostname   |-> "syntaxsurfer2.github.io",
      platform   |-> <<"L", "i", "n", "u", "x", " ", "x", "8", "6", "_", "6", "4">>,
      userAgent  |-> <<"M", "o", "z", "i", "l", "l", "a", "/", "5", ".", "0">>,
      connection |-> {[effectiveType |-> "4g", type |-> ""]}]}

Tiers == {"excellent", "good", "fair", "poor"}

(***************************************************************************)
(* Helpers.                                                                *)
(***************************************************************************)
\* Math.round(n / d) for n >= 0, d > 0 (round half up).
RoundDiv(n, d) == (2 * n + d) \div (2 * d)

RECURSIVE SumSeq(_)
SumSeq(s) == IF s = <<>> THEN 0 ELSE Head(s) + SumSeq(Tail(s))

MaxOf(s) == CHOOSE x \in {s[j] : j \in DOMAIN s} : \A j \in DOMAIN s : s[j] <= x
MinOf(s) == CHOOSE x \in {s[j] : j \in DOMAIN s} : \A j \in DOMAIN s : x <= s[j]

\* The empty object {}.
Empty == [f \in {} |-> 0]

Has(obj, f) == f \in DOMAIN obj

\* obj.f || dflt: undefined and 0 are both falsy.
OrElse(obj, f, dflt) == IF Has(obj, f) /\ obj[f] # 0 THEN obj[f] ELSE dflt

\* {...obj, f: v}
With(obj, f, v) == [g \in DOMAIN obj \cup {f} |-> IF g = f THEN v ELSE obj[g]]

(***************************************************************************)
(* NetworkAnalyzer.tsx                                                     *)
(***************************************************************************)
\* Faulty variant: prev.slice(0, 100), one record too many is kept.
handleTestComplete_SliceOneMore(prev, results) ==
    <<results>> \o SubSeq(prev, 1, IF Len(prev) < SliceEnd + 1 THEN Len(prev) ELSE SliceEnd + 1)

\* Faulty variant: [...prev.slice(0, 99), results], the new record goes last.
handleTestComplete_NewestLast(prev, results) ==
    SubSeq(prev, 1, IF Len(prev) < SliceEnd THEN Len(prev) ELSE SliceEnd) \o <<results>>

\* setTestHistory(prev => [results, ...prev.slice(0, 99)])
handleTestComplete(prev, results) ==
    <<results>> \o SubSeq(prev, 1, IF Len(prev) < SliceEnd THEN Len(prev) ELSE SliceEnd)

\* Faulty variant: the fair tier tests ping < 100.
getNetworkQuality_StrictFairPing(download, ping) ==
    IF download >= 1000 /\ ping <= 20 THEN "excellent"
    ELSE IF download >= 500 /\ ping <= 50 THEN "good"
    ELSE IF download >= 250 /\ ping < 100 THEN "fair"
    ELSE "poor"

\* Faulty variant: the excellent tier tests ping >= 20.
getNetworkQuality_ReversedExcellentPing(download, ping) ==
    IF download >= 1000 /\ ping >= 20 THEN "excellent"
    ELSE IF download >= 500 /\ ping <= 50 THEN "good"
    ELSE IF download >= 250 /\ ping <= 100 THEN "fair"
    ELSE "poor"

\* download in tenths of Mbps, ping in ms.
getNetworkQuality(download, ping) ==
    IF download >= 1000 /\ ping <= 20 THEN "excellent"
    ELSE IF download >= 500 /\ ping <= 50 THEN "good"
    ELSE IF download >= 250 /\ ping <= 100 THEN "fair"
    ELSE "poor"

(***************************************************************************)
(* SpeedTest: the measurement functions.                                   *)
(***************************************************************************)
\* measurePing, after the loop: Math.round of the mean, Math.round(max - min).
PingResult(measurements) ==
    [ping   |-> RoundDiv(SumSeq(measurements), Len(measurements)),
     jitter |-> MaxOf(measurements) - MinOf(measurements)]

\* measureDownloadSpeed, after the loop: Math.round(totalSpeed / 3 * 10) / 10.
DownloadResult(totalSpeed) == RoundDiv(totalSpeed, Len(testSizes))

\* measureUploadSpeed.  `closed` is the currentTest the function closes over:
\* the one of the render that created the running runSpeedTest.
measureUploadSpeed(closed, uploadRatio) ==
    RoundDiv(OrElse(closed, "download", FallbackDownload * 10) * uploadRatio, 1000)

\* Faulty variant: the quality is computed from the upload speed.
CompleteResults_QualityOfUpload(results, packetLoss, now) ==
    With(With(With(results, "packetLoss", packetLoss), "timestamp", now),
         "quality",
         getNetworkQuality(OrElse(results, "upload", 0), OrElse(results, "ping", 0)))

\* Faulty variant: results.timestamp is never set.
CompleteResults_NoTimestamp(results, packetLoss, now) ==
    With(With(results, "packetLoss", packetLoss),
         "quality",
         getNetworkQuality(OrElse(results, "download", 0), OrElse(results, "ping", 0)))

\* runSpeedTest: results.packetLoss, results.timestamp, results.quality.
CompleteResults(results, packetLoss, now) ==
    With(With(With(results, "packetLoss", packetLoss), "timestamp", now),
         "quality",
         getNetworkQuality(OrElse(results, "download", 0), OrElse(results, "ping", 0)))

(***************************************************************************)
(* Rendering.  runSpeedTest is memoised on [onTestComplete, setIsRunning,  *)
(* getNetworkQuality]; NetworkAnalyzer re-creates handleTestComplete and   *)
(* getNetworkQuality on each of its renders, so the memoised callback (and *)
(* the measureUploadSpeed and currentTest it closes over) is replaced      *)
(* exactly when NetworkAnalyzer renders, that is when testHistory,         *)
(* isTestRunning or networkInfo changes.  Only the download field of the   *)
(* closed-over currentTest is ever read.                                   *)
(***************************************************************************)
Capture(test) == [f \in DOMAIN test \cap {"download"} |-> test[f]]

Memoised(parentRenders, test) ==
    IF parentRenders THEN Capture(test) ELSE callbackTest

(***************************************************************************)
(* One invocation of runSpeedTest.                                         *)
(*   pc: the await the invocation is suspended at                          *)
(*   stopped: history field, stopTest was invoked while it was in progress *)
(***************************************************************************)
NewRun(closed) ==
    [pc |-> "pingFetch", i |-> 0, measurements |-> <<>>, k |-> 0,
     totalSpeed |-> 0, results |-> Empty, closed |-> closed, stopped |-> FALSE]

Started(r) == r \in DOMAIN runs
InProgress(r) == Started(r) /\ runs[r].pc # "done"

\* The state once NetworkAnalyzer and SpeedTest are mounted.
Mounted ==
    /\ testHistory = <<>>
    /\ isTestRunning = FALSE
    /\ networkInfo = {}
    /\ currentTest = Empty
    /\ testPhase = "idle"
    /\ progress = 0
    /\ callbackTest = Empty
    /\ runs = <<>>
    /\ clock = 1
    /\ handed = <<>>
    /\ view = [searchTerm |-> <<>>, qualityFilter |-> "all",
               sortField |-> "timestamp", sortOrder |-> "desc"]
    /\ event = [op |-> "none", arg |-> "none", out |-> <<>>]
    /\ isRefreshing = FALSE
    /\ traceroute = <<>>
    /\ pendingTraces = 0
    /\ dnsTests = <<>>
    /\ dnsRun = [pc |-> "idle", results |-> <<>>]

Init ==
    /\ Mounted
    /\ probe = [download |-> 0, ping |-> 0, quality |-> "none"]

\* Start Test button (shown while !isRunning): runSpeedTest up to its first
\* await.  `limit` bounds the number of invocations.
StartTest(limit) ==
    /\ ~isTestRunning
    /\ Len(runs) < limit
    /\ isTestRunning' = TRUE
    /\ testPhase' = "ping"
    /\ progress' = 0
    /\ runs' = Append(runs, NewRun(callbackTest))
    /\ callbackTest' = Memoised(TRUE, currentTest)
    /\ UNCHANGED <<testHistory, networkInfo, currentTest, clock, handed, probe, view, event, infoVars>>

\* measurePing: the fetch of sample i settles or throws; the sample is pushed
\* and the 100 ms timer is set.
PingFetchSettled(r) ==
    /\ Started(r) /\ runs[r].pc = "pingFetch"
    /\ \E m \in FetchMs :
          runs' = [runs EXCEPT ![r].pc = "pingDelay",
                               ![r].measurements = Append(@, m)]
    /\ UNCHANGED <<testHistory, isTestRunning, networkInfo, currentTest, testPhase,
                   progress, callbackTest, clock, handed, probe, view, event, infoVars>>

\* Faulty variant: the catch block pushes no sample.
PingFetchFailed_NoSample(r) ==
    /\ Started(r) /\ runs[r].pc = "pingFetch"
    /\ runs' = [runs EXCEPT ![r].pc = "pingDelay"]
    /\ UNCHANGED <<testHistory, isTestRunning, networkInfo, currentTest, testPhase,
                   progress, callbackTest, clock, handed, probe, view, event, infoVars>>

\* measurePing: the fetch rejects, the catch block pushes the fallback sample
\* and the 100 ms timer is set.
PingFetchFailed(r) ==
    /\ Started(r) /\ runs[r].pc = "pingFetch"
    /\ \E m \in FallbackMs :
          runs' = [runs EXCEPT ![r].pc = "pingDelay",
                               ![r].measurements = Append(@, m)]
    /\ UNCHANGED <<testHistory, isTestRunning, networkInfo, currentTest, testPhase,
                   progress, callbackTest, clock, handed, probe, view, event, infoVars>>

\* measurePing: the 100 ms timer fires and the loop goes on to the next fetch.
PingNextSample(r) ==
    /\ Started(r) /\ runs[r].pc = "pingDelay"
    /\ runs[r].i + 1 < PingSamples
    /\ runs' = [runs EXCEPT ![r].pc = "pingFetch", ![r].i = @ + 1]
    /\ UNCHANGED <<testHistory, isTestRunning, networkInfo, currentTest, testPhase,
                   progress, callbackTest, clock, handed, probe, view, event, infoVars>>

\* measurePing: the last 100 ms timer fires, measurePing returns; runSpeedTest
\* stores ping and jitter and goes on to its 500 ms wait of the download test.
PingDone(r) ==
    /\ Started(r) /\ runs[r].pc = "pingDelay"
    /\ runs[r].i + 1 >= PingSamples
    /\ LET pingResult == PingResult(runs[r].measurements)
           results == With(With(runs[r].results, "ping", pingResult.ping),
                           "jitter", pingResult.jitter)
       IN /\ runs' = [runs EXCEPT ![r].pc = "dlWait", ![r].i = 0,
                                  ![r].measurements = <<>>,
                                  ![r].results = results]
          /\ currentTest' = results
    /\ progress' = 25
    /\ testPhase' = "download"
    /\ UNCHANGED <<testHistory, isTestRunning, networkInfo, callbackTest, clock,
                   handed, probe, view, event, infoVars>>

\* The 500 ms wait ends; measureDownloadSpeed sets the timer of its first transfer.
DownloadStart(r) ==
    /\ Started(r) /\ runs[r].pc = "dlWait"
    /\ runs' = [runs EXCEPT ![r].pc = "dlSample", ![r].k = 0, ![r].totalSpeed = 0]
    /\ UNCHANGED <<testHistory, isTestRunning, networkInfo, currentTest, testPhase,
                   progress, callbackTest, clock, handed, probe, view, event, infoVars>>

\* measureDownloadSpeed: a transfer timer fires, its speed is added, the next
\* transfer starts.
DownloadNextSample(r) ==
    /\ Started(r) /\ runs[r].pc = "dlSample"
    /\ runs[r].k + 1 < Len(testSizes)
    /\ \E speed \in SampleSpeeds :
          runs' = [runs EXCEPT ![r].k = @ + 1, ![r].totalSpeed = @ + speed]
    /\ UNCHANGED <<testHistory, isTestRunning, networkInfo, currentTest, testPhase,
                   progress, callbackTest, clock, handed, probe, view, event, infoVars>>

\* measureDownloadSpeed: the last transfer timer fires; runSpeedTest stores the
\* download speed and goes on to its 500 ms wait of the upload test.
DownloadDone(r) ==
    /\ Started(r) /\ runs[r].pc = "dlSample"
    /\ runs[r].k + 1 >= Len(testSizes)
    /\ \E speed \in SampleSpeeds :
          LET totalSpeed == runs[r].totalSpeed + speed
              results == With(runs[r].results, "download", DownloadResult(totalSpeed))
          IN /\ runs' = [runs EXCEPT ![r].pc = "ulWait", ![r].k = 0,
                                     ![r].totalSpeed = 0,
                                     ![r].results = results]
             /\ currentTest' = results
    /\ progress' = 65
    /\ testPhase' = "upload"
    /\ UNCHANGED <<testHistory, isTestRunning, networkInfo, callbackTest, clock,
                   handed, probe, view, event, infoVars>>

\* The 500 ms wait ends: upload, packet loss, timestamp and quality are set,
\* the phase becomes complete and the 1 s timer is set.
UploadAndComplete(r) ==
    /\ Started(r) /\ runs[r].pc = "ulWait"
    /\ \E uploadRatio \in UploadRatios, packetLoss \in PacketLosses, now \in {clock + 1} :
          LET upload == measureUploadSpeed(runs[r].closed, uploadRatio)
              results == CompleteResults(With(runs[r].results, "upload", upload),
                                         packetLoss, now)
          IN /\ runs' = [runs EXCEPT ![r].pc = "timer", ![r].results = results,
                                     ![r].closed = Empty]
             /\ currentTest' = results
             /\ clock' = now
    /\ progress' = 100
    /\ testPhase' = "complete"
    /\ UNCHANGED <<testHistory, isTestRunning, networkInfo, callbackTest, handed, probe, view, event, infoVars>>

\* Faulty variant: the timer callback forgets setIsRunning(false).
CompleteTimer_StaysRunning(r) ==
    /\ Started(r) /\ runs[r].pc = "timer"
    /\ testHistory' = handleTestComplete(testHistory, runs[r].results)
    /\ handed' = Append(handed, runs[r].results)
    /\ testPhase' = "idle"
    /\ runs' = [runs EXCEPT ![r].pc = "done"]
    /\ callbackTest' = Memoised(TRUE, currentTest)
    /\ UNCHANGED <<isTestRunning, networkInfo, currentTest, progress, clock, probe, view, event, infoVars>>

\* The 1 s timer fires: onTestComplete(results), setTestPhase('idle'),
\* setIsRunning(false).
CompleteTimer(r) ==
    /\ Started(r) /\ runs[r].pc = "timer"
    /\ testHistory' = handleTestComplete(testHistory, runs[r].results)
    /\ handed' = Append(handed, runs[r].results)
    /\ testPhase' = "idle"
    /\ isTestRunning' = FALSE
    /\ runs' = [runs EXCEPT ![r].pc = "done"]
    /\ callbackTest' = Memoised(TRUE, currentTest)
    /\ UNCHANGED <<networkInfo, currentTest, progress, clock, probe, view, event, infoVars>>

\* Stop Test button (shown while isRunning).
stopTest ==
    /\ isTestRunning
    /\ isTestRunning' = FALSE
    /\ testPhase' = "idle"
    /\ progress' = 0
    /\ currentTest' = Empty
    /\ runs' = [r \in DOMAIN runs |->
                  IF runs[r].pc # "done" THEN [runs[r] EXCEPT !.stopped = TRUE]
                  ELSE runs[r]]
    /\ callbackTest' = Memoised(TRUE, Empty)
    /\ UNCHANGED <<testHistory, networkInfo, clock, handed, probe, view, event, infoVars>>

\* Faulty variant: getPublicIP has no try/catch, a failed lookup throws.
getPublicIP_NoCatch(lookup) ==
    IF lookup.outcome = "decoded"
    THEN [threw |-> FALSE, value |-> lookup.ip]
    ELSE [threw |-> TRUE, value |-> ""]

\* getPublicIP: what the call returns, or that it throws.
getPublicIP(lookup) ==
    IF lookup.outcome = "decoded"
    THEN [threw |-> FALSE, value |-> lookup.ip]
    ELSE [threw |-> FALSE, value |-> "Unknown"]

getLocalIP == "192.168.1.1"

\* getOS; has is String.prototype.includes (and the two regular expressions).
getOS(platform, userAgent) ==
    LET has(text, word) ==
            \E s \in 0..(Len(text) - Len(word)) : SubSeq(text, s + 1, s + Len(word)) = word
    IN IF has(platform, <<"W", "i", "n">>) THEN "Windows"
       ELSE IF has(platform, <<"M", "a", "c">>) THEN "macOS"
       ELSE IF has(platform, <<"L", "i", "n", "u", "x">>) THEN "Linux"
       ELSE IF has(userAgent, <<"A", "n", "d", "r", "o", "i", "d">>) THEN "Android"
       ELSE IF \/ has(userAgent, <<"i", "P", "h", "o", "n", "e">>)
               \/ has(userAgent, <<"i", "P", "a", "d">>) THEN "iOS"
       ELSE "Unknown"

\* getConnectionType; {} is an undefined navigator.connection.
getConnectionType(connection) ==
    IF connection = {} THEN "Unknown"
    ELSE LET c == CHOOSE x \in connection : TRUE
         IN IF c.effectiveType # "" THEN c.effectiveType
            ELSE IF c.type # "" THEN c.type
            ELSE "Unknown"

\* fetchNetworkInfo (on mount): getPublicIP settles, the other fields are
\* read, setNetworkInfo(info).  A throw inside the try block is caught and
\* logged, and nothing is set.
fetchNetworkInfo ==
    /\ networkInfo = {}
    /\ event.op # "fetchNetworkInfo"
    /\ \E lookup \in IpLookups, browser \in Browsers :
          LET publicIp == getPublicIP(lookup)
              info == [publicIp       |-> publicIp.value,
                       localIp        |-> getLocalIP,
                       hostname       |-> IF browser.hostname # "" THEN browser.hostname
                                          ELSE "localhost",
                       os             |-> getOS(browser.platform, browser.userAgent),
                       isp            |-> "Detecting ISP...",
                       connectionType |-> getConnectionType(browser.connection),
                       location       |-> "Detecting location..."]
          IN /\ networkInfo' = IF publicIp.threw THEN networkInfo ELSE {info}
             /\ event' = [op  |-> "fetchNetworkInfo",
                          arg |-> IF lookup.outcome = "decoded" THEN "decoded" ELSE "failed",
                          out |-> <<>>]
    /\ callbackTest' = Memoised(TRUE, currentTest)
    /\ UNCHANGED <<testHistory, isTestRunning, currentTest, testPhase, progress,
                   runs, clock, handed, probe, view, infoVars>>

runSpeedTest == StartTest(MaxRuns)

\* The resumptions of invocation r.  The catch block of runSpeedTest is not
\* among them: a rejected fetch is caught inside measurePing, the promises of
\* measureDownloadSpeed only resolve, and nothing else in the try block
\* throws.

RunStep(r) ==
    \/ PingFetchSettled(r)
    \/ PingFetchFailed(r)
    \/ PingNextSample(r)
    \/ PingDone(r)
    \/ DownloadStart(r)
    \/ DownloadNextSample(r)
    \/ DownloadDone(r)
    \/ UploadAndComplete(r)
    \/ CompleteTimer(r)

Next ==
    \/ runSpeedTest
    \/ stopTest
    \/ fetchNetworkInfo
    \/ \E r \in 1..MaxRuns : RunStep(r)

Spec == Init /\ [][Next]_vars

\* Timers fire and the fetches of measurePing settle: every suspended
\* invocation of runSpeedTest is eventually resumed.  The buttons may or may
\* not be pressed.  The IP lookup, which no step of the sequencer reads, is
\* left pending.
LiveNext ==
    \/ runSpeedTest
    \/ stopTest
    \/ \E r \in 1..MaxRuns : RunStep(r)

LiveSpec == Init /\ [][LiveNext]_vars /\ \A r \in 1..MaxRuns : WF_vars(RunStep(r))

\* Spec with one more invocation allowed, so that Start Test can be pressed
\* again after Stop Test.
runSpeedTestAgain == StartTest(MaxRuns + 1)

OverlapNext ==
    \/ runSpeedTestAgain
    \/ stopTest
    \/ fetchNetworkInfo
    \/ \E r \in 1..(MaxRuns + 1) : RunStep(r)

OverlapSpec == Init /\ [][OverlapNext]_vars

(***************************************************************************)
(* The store alone: records are handed to handleTestComplete one after     *)
(* another.                                                                *)
(***************************************************************************)
\* The n-th record handed over.
SeqRecord(n) ==
    [download |-> 10 * n, upload |-> 3 * n, ping |-> n, jitter |-> n % 7,
     packetLoss |-> n % 200, timestamp |-> n,
     quality |-> getNetworkQuality(10 * n, n)]

StoreAppend ==
    /\ Len(handed) < MaxAppends
    /\ LET results == SeqRecord(Len(handed) + 1)
       IN /\ testHistory' = handleTestComplete(testHistory, results)
          /\ handed' = Append(handed, results)
    /\ UNCHANGED <<isTestRunning, networkInfo, currentTest, testPhase, progress,
                   callbackTest, runs, clock, probe, view, event, infoVars>>

StoreSpec == Init /\ [][StoreAppend]_vars

(***************************************************************************)
(* The classifier alone: one call on each input of a grid.                 *)
(***************************************************************************)
ClassifierInit ==
    /\ Mounted
    /\ probe \in [download : 0..MaxProbeDownload, ping : 0..MaxProbePing,
                  quality : {"none"}]

Classify ==
    /\ probe.quality = "none"
    /\ probe' = [probe EXCEPT !.quality = getNetworkQuality(probe.download, probe.ping)]
    /\ UNCHANGED <<testHistory, isTestRunning, networkInfo, currentTest, testPhase,
                   progress, callbackTest, runs, clock, handed, view, event, infoVars>>

ClassifierSpec == ClassifierInit /\ [][Classify]_vars

(***************************************************************************)
(* Text.  A string is a sequence of pieces; where the code looks inside a  *)
(* string (includes, localeCompare) the pieces are single characters.      *)
(***************************************************************************)
upperCase == <<"A", "B", "C", "D", "E", "F", "G", "H", "I", "J", "K", "L", "M",
               "N", "O", "P", "Q", "R", "S", "T", "U", "V", "W", "X", "Y", "Z">>
lowerCase == <<"a", "b", "c", "d", "e", "f", "g", "h", "i", "j", "k", "l", "m",
               "n", "o", "p", "q", "r", "s", "t", "u", "v", "w", "x", "y", "z">>

\* The characters of a quality label.
Chars(quality) ==
    CASE quality = "excellent" -> <<"e", "x", "c", "e", "l", "l", "e", "n", "t">>
      [] quality = "good"      -> <<"g", "o", "o", "d">>
      [] quality = "fair"      -> <<"f", "a", "i", "r">>
      [] quality = "poor"      -> <<"p", "o", "o", "r">>

\* String.prototype.toLowerCase
toLowerCase(text) ==
    [j \in DOMAIN text |->
        IF \E c \in DOMAIN upperCase : upperCase[c] = text[j]
        THEN lowerCase[CHOOSE c \in DOMAIN upperCase : upperCase[c] = text[j]]
        ELSE text[j]]

\* String.prototype.includes
includes(text, term) ==
    \E s \in 0..(Len(text) - Len(term)) : SubSeq(text, s + 1, s + Len(term)) = term

\* String.prototype.localeCompare on lower-case words: negative, 0 or positive.
RECURSIVE localeCompare(_, _)
localeCompare(a, b) ==
    IF a = <<>> /\ b = <<>> THEN 0
    ELSE IF a = <<>> THEN -1
    ELSE IF b = <<>> THEN 1
    ELSE LET ca == CHOOSE c \in DOMAIN lowerCase : lowerCase[c] = Head(a)
             cb == CHOOSE c \in DOMAIN lowerCase : lowerCase[c] = Head(b)
         IN IF ca # cb THEN ca - cb ELSE localeCompare(Tail(a), Tail(b))

digits == <<"0", "1", "2", "3", "4", "5", "6", "7", "8", "9">>

\* Number.prototype.toString of a non-negative integer.
RECURSIVE toString(_)
toString(n) ==
    IF n < 10 THEN <<digits[n + 1]>> ELSE toString(n \div 10) \o <<digits[(n % 10) + 1]>>

\* Number.prototype.toFixed(1) of a value held in tenths.
toFixed1(tenths) == toString(tenths \div 10) \o <<".", digits[(tenths % 10) + 1]>>

\* Number.prototype.toFixed(2) of a value held in hundredths.
toFixed2(hundredths) ==
    toString(hundredths \div 100)
        \o <<".", digits[((hundredths \div 10) % 10) + 1], digits[(hundredths % 10) + 1]>>

\* Two digits, zero-padded.
TwoDigits(n) == <<digits[(n \div 10) + 1], digits[(n % 10) + 1]>>

\* new Date(timestamp).toLocaleDateString() in the en-US locale and UTC, for
\* the timestamps of January 1970: M/D/YYYY.
toLocaleDateString(timestamp) ==
    <<"1", "/">> \o toString((timestamp \div 86400000) + 1) \o <<"/", "1", "9", "7", "0">>

\* new Date(timestamp).toLocaleTimeString() in the en-US locale and UTC:
\* h:mm:ss AM or PM.
toLocaleTimeString(timestamp) ==
    LET h24 == (timestamp \div 3600000) % 24
        h12 == IF h24 % 12 = 0 THEN 12 ELSE h24 % 12
    IN toString(h12) \o <<":">> \o TwoDigits((timestamp \div 60000) % 60)
           \o <<":">> \o TwoDigits((timestamp \div 1000) % 60)
           \o <<" ", IF h24 < 12 THEN "AM" ELSE "PM">>

(***************************************************************************)
(* TestHistory: the filtered and sorted view.                              *)
(***************************************************************************)
SortFields == {"timestamp", "download", "upload", "ping", "quality"}
QualityFilters == {"all"} \cup Tiers

\* What is typed into the search box: nothing, letters of a quality label,
\* part of a date.
SearchTerms == {<<>>, <<"A", "i">>, <<"/", "2", "/">>}

\* The callback of Array.prototype.filter.
matchesSearch(test, searchTerm) ==
    \/ searchTerm = <<>>
    \/ includes(toLowerCase(Chars(test.quality)), toLowerCase(searchTerm))
    \/ includes(toLocaleDateString(test.timestamp), searchTerm)

matchesQuality(test, qualityFilter) ==
    qualityFilter = "all" \/ test.quality = qualityFilter

\* Faulty variant: matchesSearch || matchesQuality.
filter_EitherMatches(array, searchTerm, qualityFilter) ==
    LET keep(test) == matchesSearch(test, searchTerm) \/ matchesQuality(test, qualityFilter)
    IN SelectSeq(array, keep)

\* Array.prototype.filter with that callback: a new array.
filter(array, searchTerm, qualityFilter) ==
    LET keep(test) == matchesSearch(test, searchTerm) /\ matchesQuality(test, qualityFilter)
    IN SelectSeq(array, keep)

\* Faulty variant: the comparator ignores sortOrder and always sorts ascending.
compare_AlwaysAscending(a, b, sortField, sortOrder) ==
    IF sortField = "quality"
    THEN localeCompare(Chars(a.quality), Chars(b.quality))
    ELSE a[sortField] - b[sortField]

\* Faulty variant: quality is compared by tier, excellent first, instead of
\* as a string.
compare_QualityByTier(a, b, sortField, sortOrder) ==
    LET tier(test) == CASE test.quality = "excellent" -> 1
                        [] test.quality = "good" -> 2
                        [] test.quality = "fair" -> 3
                        [] test.quality = "poor" -> 4
    IN IF sortField = "quality"
       THEN IF sortOrder = "asc" THEN tier(a) - tier(b) ELSE tier(b) - tier(a)
       ELSE IF sortOrder = "asc"
            THEN a[sortField] - b[sortField]
            ELSE b[sortField] - a[sortField]

\* The comparator of the sort: quality is the one string-valued field.
compare(a, b, sortField, sortOrder) ==
    IF sortField = "quality"
    THEN IF sortOrder = "asc"
         THEN localeCompare(Chars(a.quality), Chars(b.quality))
         ELSE localeCompare(Chars(b.quality), Chars(a.quality))
    ELSE IF sortOrder = "asc"
         THEN a[sortField] - b[sortField]
         ELSE b[sortField] - a[sortField]

\* Array.prototype.sort with that comparator.  The sort is stable: an element
\* goes behind every element already placed that does not compare greater.
RECURSIVE sortInto(_, _, _, _)
sortInto(placed, rest, sortField, sortOrder) ==
    IF rest = <<>> THEN placed
    ELSE LET x == Head(rest)
             p == Cardinality({j \in DOMAIN placed :
                                  compare(placed[j], x, sortField, sortOrder) <= 0})
         IN sortInto(SubSeq(placed, 1, p) \o <<x>> \o SubSeq(placed, p + 1, Len(placed)),
                     Tail(rest), sortField, sortOrder)

\* Faulty variant: an unstable sort, an element goes in front of the elements
\* already placed that compare equal to it.
RECURSIVE sort_EqualsReversed(_, _, _)
sort_EqualsReversed(array, sortField, sortOrder) ==
    IF array = <<>> THEN <<>>
    ELSE LET n == Len(array)
             placed == sort_EqualsReversed(SubSeq(array, 1, n - 1), sortField, sortOrder)
             x == array[n]
             p == Cardinality({j \in DOMAIN placed :
                                  compare(placed[j], x, sortField, sortOrder) < 0})
         IN SubSeq(placed, 1, p) \o <<x>> \o SubSeq(placed, p + 1, Len(placed))

sort(array, sortField, sortOrder) == sortInto(<<>>, array, sortField, sortOrder)

\* Faulty variant: testHistory.sort(...).filter(...), the prop array is sorted
\* in place.
TestHistoryRender_SortsStore(history, v) ==
    [testHistory  |-> sort(history, v.sortField, v.sortOrder),
     filteredData |-> filter(sort(history, v.sortField, v.sortOrder),
                             v.searchTerm, v.qualityFilter)]

\* One render of TestHistory: the prop array after it, and filteredData.
TestHistoryRender(history, v) ==
    [testHistory  |-> history,
     filteredData |-> sort(filter(history, v.searchTerm, v.qualityFilter),
                           v.sortField, v.sortOrder)]

\* filteredData of the current render.
filteredData == TestHistoryRender(testHistory, view).filteredData

\* Faulty variant: a newly selected field keeps the direction of the old one.
handleSortState_KeepsDirection(v, field) ==
    IF v.sortField = field
    THEN [v EXCEPT !.sortOrder = IF v.sortOrder = "asc" THEN "desc" ELSE "asc"]
    ELSE [v EXCEPT !.sortField = field]

\* Faulty variant: a click on the active field always sets ascending.
handleSortState_SetsAscending(v, field) ==
    IF v.sortField = field
    THEN [v EXCEPT !.sortOrder = "asc"]
    ELSE [v EXCEPT !.sortField = field, !.sortOrder = "desc"]

\* handleSort: the sort state after the header of `field` is clicked.
handleSortState(v, field) ==
    IF v.sortField = field
    THEN [v EXCEPT !.sortOrder = IF v.sortOrder = "asc" THEN "desc" ELSE "asc"]
    ELSE [v EXCEPT !.sortField = field, !.sortOrder = "desc"]

\* `"${cell}"`
Quoted(cell) == <<"\"">> \o cell \o <<"\"">>

headers ==
    <<<<"Date">>, <<"Time">>, <<"Download (Mbps)">>, <<"Upload (Mbps)">>,
      <<"Ping (ms)">>, <<"Jitter (ms)">>, <<"Packet Loss (%)">>, <<"Quality">>>>

\* One element of csvData.
csvRow(test) ==
    <<toLocaleDateString(test.timestamp), toLocaleTimeString(test.timestamp),
      toFixed1(test.download), toFixed1(test.upload), toString(test.ping),
      toString(test.jitter), toFixed2(test.packetLoss), Chars(test.quality)>>

\* csvContent: the lines that join('\n') puts together, each line the cells
\* that join(',') puts together.
csvContent(data) ==
    LET rows == <<headers>> \o [j \in DOMAIN data |-> csvRow(data[j])]
    IN [r \in DOMAIN rows |-> [c \in DOMAIN rows[r] |-> Quoted(rows[r][c])]]

\* The keys of a completed record in the order runSpeedTest sets them, which
\* is the order JSON.stringify writes them in.
recordKeys == <<"ping", "jitter", "download", "upload", "packetLoss", "timestamp", "quality">>

\* JSON.stringify(filteredData, null, 2): an array of objects, each a list of
\* key and value.
jsonData(data) ==
    [j \in DOMAIN data |->
        [k \in DOMAIN recordKeys |-> <<recordKeys[k], data[j][recordKeys[k]]>>]]

NoOutput == <<>>

\* The handlers exist only while the store is non-empty: with an empty store
\* TestHistory renders the "No Test History" placeholder instead.
setSearchTerm(term) ==
    /\ testHistory # <<>>
    /\ term # view.searchTerm
    /\ view' = [view EXCEPT !.searchTerm = term]
    /\ testHistory' = TestHistoryRender(testHistory, view').testHistory
    /\ event' = [op |-> "setSearchTerm", arg |-> term, out |-> NoOutput]
    /\ UNCHANGED <<isTestRunning, networkInfo, currentTest, testPhase, progress,
                   callbackTest, runs, clock, handed, probe, infoVars>>

setQualityFilter(value) ==
    /\ testHistory # <<>>
    /\ value # view.qualityFilter
    /\ view' = [view EXCEPT !.qualityFilter = value]
    /\ testHistory' = TestHistoryRender(testHistory, view').testHistory
    /\ event' = [op |-> "setQualityFilter", arg |-> value, out |-> NoOutput]
    /\ UNCHANGED <<isTestRunning, networkInfo, currentTest, testPhase, progress,
                   callbackTest, runs, clock, handed, probe, infoVars>>

handleSort(field) ==
    /\ testHistory # <<>>
    /\ view' = handleSortState(view, field)
    /\ testHistory' = TestHistoryRender(testHistory, view').testHistory
    /\ event' = [op |-> "handleSort", arg |-> field, out |-> view]
    /\ UNCHANGED <<isTestRunning, networkInfo, currentTest, testPhase, progress,
                   callbackTest, runs, clock, handed, probe, infoVars>>

\* Faulty variant: the whole store is exported, in store order.
exportToCSV_WholeStore ==
    /\ testHistory # <<>>
    /\ event' = [op |-> "exportToCSV", arg |-> "none", out |-> csvContent(testHistory)]
    /\ UNCHANGED <<testHistory, isTestRunning, networkInfo, currentTest, testPhase,
                   progress, callbackTest, runs, clock, handed, probe, view, infoVars>>

exportToCSV ==
    /\ testHistory # <<>>
    /\ event' = [op |-> "exportToCSV", arg |-> "none", out |-> csvContent(filteredData)]
    /\ UNCHANGED <<testHistory, isTestRunning, networkInfo, currentTest, testPhase,
                   progress, callbackTest, runs, clock, handed, probe, view, infoVars>>

exportToJSON ==
    /\ testHistory # <<>>
    /\ event' = [op |-> "exportToJSON", arg |-> "none", out |-> jsonData(filteredData)]
    /\ UNCHANGED <<testHistory, isTestRunning, networkInfo, currentTest, testPhase,
                   progress, callbackTest, runs, clock, handed, probe, view, infoVars>>

\* The Clear button only shows a toast.
clearHistory ==
    /\ testHistory # <<>>
    /\ event' = [op |-> "clearHistory", arg |-> "none", out |-> NoOutput]
    /\ UNCHANGED <<testHistory, isTestRunning, networkInfo, currentTest, testPhase,
                   progress, callbackTest, runs, clock, handed, probe, view, infoVars>>

(***************************************************************************)
(* PerformanceCharts.                                                      *)
(***************************************************************************)
\* Array.prototype.slice(0, end): a new array.
slice(array, end) == SubSeq(array, 1, IF Len(array) < end THEN Len(array) ELSE end)

\* Array.prototype.reverse
reverse(array) == [j \in DOMAIN array |-> array[Len(array) + 1 - j]]

\* Faulty variant: the slice is not reversed, the newest record comes first.
chartData_NewestFirst(history) ==
    LET window == slice(history, ChartWindow)
    IN [j \in DOMAIN window |->
           [test       |-> j,
            download   |-> window[j].download,
            upload     |-> window[j].upload,
            ping       |-> window[j].ping,
            jitter     |-> window[j].jitter,
            packetLoss |-> window[j].packetLoss,
            timestamp  |-> toLocaleTimeString(window[j].timestamp),
            quality    |-> window[j].quality]]

chartData(history) ==
    LET window == reverse(slice(history, ChartWindow))
    IN [j \in DOMAIN window |->
           [test       |-> j,
            download   |-> window[j].download,
            upload     |-> window[j].upload,
            ping       |-> window[j].ping,
            jitter     |-> window[j].jitter,
            packetLoss |-> window[j].packetLoss,
            timestamp  |-> toLocaleTimeString(window[j].timestamp),
            quality    |-> window[j].quality]]

\* The values of one field over the whole array.
Column(array, f) == [j \in DOMAIN array |-> array[j][f]]

\* Faulty variant: the statistics are taken over the records of the chart only.
stats_OfChartWindow(history) ==
    LET window == slice(history, ChartWindow)
    IN IF Len(history) > 0
       THEN {[avgDownload |-> <<SumSeq(Column(window, "download")), Len(window)>>,
              avgUpload   |-> <<SumSeq(Column(window, "upload")), Len(window)>>,
              avgPing     |-> <<SumSeq(Column(window, "ping")), Len(window)>>,
              maxDownload |-> MaxOf(Column(window, "download")),
              minPing     |-> MinOf(Column(window, "ping"))]}
       ELSE {}

\* stats; {} is null.  A mean is kept as the sum and the count it is the
\* quotient of.
stats(history) ==
    IF Len(history) > 0
    THEN {[avgDownload |-> <<SumSeq(Column(history, "download")), Len(history)>>,
           avgUpload   |-> <<SumSeq(Column(history, "upload")), Len(history)>>,
           avgPing     |-> <<SumSeq(Column(history, "ping")), Len(history)>>,
           maxDownload |-> MaxOf(Column(history, "download")),
           minPing     |-> MinOf(Column(history, "ping"))]}
    ELSE {}

\* One render of PerformanceCharts: the prop array after it and what is drawn.
PerformanceChartsRender(history) ==
    [testHistory |-> history, chartData |-> chartData(history), stats |-> stats(history)]

renderCharts ==
    /\ testHistory' = PerformanceChartsRender(testHistory).testHistory
    /\ event' = [op |-> "renderCharts", arg |-> "none", out |-> NoOutput]
    /\ UNCHANGED <<isTestRunning, networkInfo, currentTest, testPhase, progress,
                   callbackTest, runs, clock, handed, probe, view, infoVars>>

(***************************************************************************)
(* The views over a growing store: completed runs hand their records over  *)
(* while the history and the charts are looked at.                         *)
(***************************************************************************)
\* What a completed run measured, and the time since the previous record, ms.
FinishedRuns ==
    {[download |-> 1200, upload |-> 360, ping |-> 15, jitter |-> 4,
      packetLoss |-> 137, after |-> 61000],
     [download |-> 300, upload |-> 147, ping |-> 57, jitter |-> 105,
      packetLoss |-> 20, after |-> 86400000]}

\* The 1 s timer of a completed run fires: onTestComplete(results), for the
\* first `limit` runs.
onTestCompleteWithin(finished, limit) ==
    /\ Len(handed) < limit
    /\ clock' = clock + finished.after
    /\ LET measured == [f \in {"ping", "jitter", "download", "upload"} |-> finished[f]]
           results == CompleteResults(measured, finished.packetLoss, clock')
       IN /\ testHistory' =
                 TestHistoryRender(handleTestComplete(testHistory, results), view).testHistory
          /\ handed' = Append(handed, results)
    /\ event' = [op |-> "onTestComplete", arg |-> "none", out |-> NoOutput]
    /\ UNCHANGED <<isTestRunning, networkInfo, currentTest, testPhase, progress,
                   callbackTest, runs, probe, view, infoVars>>

onTestComplete(finished) == onTestCompleteWithin(finished, MaxViewRecords)

ViewNext ==
    \/ \E finished \in FinishedRuns : onTestComplete(finished)
    \/ \E term \in SearchTerms : setSearchTerm(term)
    \/ \E value \in QualityFilters : setQualityFilter(value)
    \/ \E field \in SortFields : handleSort(field)
    \/ exportToCSV
    \/ exportToJSON
    \/ clearHistory
    \/ renderCharts

ViewSpec == Init /\ [][ViewNext]_vars

\* The views together with the two buttons of SpeedTest.
HandlersNext ==
    \/ ViewNext
    \/ runSpeedTest
    \/ stopTest

HandlersSpec == Init /\ [][HandlersNext]_vars

(***************************************************************************)
(* The sorted history over stores of all four tiers: runs of each tier     *)
(* complete and the column headers are clicked.                            *)
(***************************************************************************)
\* One completed run of each tier, one minute apart; the good and the fair
\* run have the same upload.
TierRuns ==
    {[download |-> 1200, upload |-> 360, ping |-> 15, jitter |-> 4,
      packetLoss |-> 137, after |-> 60000],
     [download |-> 600, upload |-> 120, ping |-> 30, jitter |-> 12,
      packetLoss |-> 20, after |-> 60000],
     [download |-> 300, upload |-> 120, ping |-> 57, jitter |-> 105,
      packetLoss |-> 20, after |-> 60000],
     [download |-> 100, upload |-> 30, ping |-> 120, jitter |-> 30,
      packetLoss |-> 199, after |-> 60000]}

SortNext ==
    \/ \E finished \in TierRuns : onTestCompleteWithin(finished, MaxSortRecords)
    \/ \E field \in SortFields : handleSort(field)

SortSpec == Init /\ [][SortNext]_vars

(***************************************************************************)
(* NetworkInfo: the DNS tests and the traceroute.  Latencies are in tenths *)
(* of a millisecond.                                                       *)
(***************************************************************************)
dnsServers == <<"Cloudflare", "Google", "Quad9">>

simulatedHops ==
    <<[hop |-> 1, ip |-> "192.168.1.1", hostname |-> "router.local",
       latency |-> <<12, 11, 13>>],
      [hop |-> 2, ip |-> "10.0.0.1", hostname |-> "isp-gateway.net",
       latency |-> <<85, 87, 83>>],
      [hop |-> 3, ip |-> "203.0.113.1", hostname |-> "core1.isp.net",
       latency |-> <<152, 148, 155>>],
      [hop |-> 4, ip |-> "203.0.113.50", hostname |-> "border.isp.net",
       latency |-> <<221, 219, 225>>],
      [hop |-> 5, ip |-> "8.8.8.8", hostname |-> "dns.google",
       latency |-> <<253, 251, 257>>]>>

\* The effect on networkInfo: once it is set, runDnsTests starts and sets the
\* timer of its first lookup.
runDnsTests ==
    /\ networkInfo # {}
    /\ dnsRun.pc = "idle"
    /\ dnsRun' = [pc |-> "running", results |-> <<>>]
    /\ UNCHANGED <<testHistory, isTestRunning, networkInfo, currentTest, testPhase,
                   progress, callbackTest, runs, clock, handed, probe, view, event,
                   isRefreshing, traceroute, pendingTraces, dnsTests>>

\* runDnsTests: the timer of a lookup fires and its result is pushed; after
\* the last one, setDnsTests(results).  The promise never rejects, so the
\* catch block with latency 999 is not entered.
DnsLookupDone ==
    /\ dnsRun.pc = "running"
    /\ \E latency \in DnsLatencies :
          LET results == Append(dnsRun.results,
                                [server  |-> dnsServers[Len(dnsRun.results) + 1],
                                 latency |-> latency])
          IN IF Len(results) < Len(dnsServers)
             THEN /\ dnsRun' = [dnsRun EXCEPT !.results = results]
                  /\ UNCHANGED dnsTests
             ELSE /\ dnsRun' = [pc |-> "done", results |-> <<>>]
                  /\ dnsTests' = results
    /\ UNCHANGED <<testHistory, isTestRunning, networkInfo, currentTest, testPhase,
                   progress, callbackTest, runs, clock, handed, probe, view, event,
                   isRefreshing, traceroute, pendingTraces>>

\* Faulty variant: the Trace Route button is not disabled while refreshing.
runTraceroute_NotDisabled ==
    /\ networkInfo # {}
    /\ pendingTraces < MaxPendingTraces
    /\ isRefreshing' = TRUE
    /\ pendingTraces' = pendingTraces + 1
    /\ UNCHANGED <<testHistory, isTestRunning, networkInfo, currentTest, testPhase,
                   progress, callbackTest, runs, clock, handed, probe, view, event,
                   traceroute, dnsTests, dnsRun>>

\* Trace Route button.  It is rendered once networkInfo is set and is disabled
\* while isRefreshing.  runTraceroute up to its await: the 2 s timer is set.
runTraceroute ==
    /\ networkInfo # {}
    /\ ~isRefreshing
    /\ pendingTraces < MaxPendingTraces
    /\ isRefreshing' = TRUE
    /\ pendingTraces' = pendingTraces + 1
    /\ UNCHANGED <<testHistory, isTestRunning, networkInfo, currentTest, testPhase,
                   progress, callbackTest, runs, clock, handed, probe, view, event,
                   traceroute, dnsTests, dnsRun>>

\* runTraceroute after its await: the 2 s timer has fired.
TracerouteTimer ==
    /\ pendingTraces > 0
    /\ traceroute' = simulatedHops
    /\ isRefreshing' = FALSE
    /\ pendingTraces' = pendingTraces - 1
    /\ UNCHANGED <<testHistory, isTestRunning, networkInfo, currentTest, testPhase,
                   progress, callbackTest, runs, clock, handed, probe, view, event,
                   dnsTests, dnsRun>>

InfoNext ==
    \/ fetchNetworkInfo
    \/ runDnsTests
    \/ DnsLookupDone
    \/ runTraceroute
    \/ TracerouteTimer

\* Timers fire: a pending traceroute timer is eventually run.
InfoSpec == Init /\ [][InfoNext]_vars /\ WF_vars(TracerouteTimer)

(***************************************************************************)
(* Claims.                                                                 *)
(***************************************************************************)
\* A step of stopTest: the invocation in progress becomes a stopped one.
StopStep == \E r \in DOMAIN runs : ~runs[r].stopped /\ runs'[r].stopped

\* Invocation r ends in this step.
Ends(r) == r \in DOMAIN runs /\ runs[r].pc # "done" /\ runs'[r].pc = "done"

\* stopTest was invoked and Start Test has not been pressed since.
StopInEffect == runs # <<>> /\ runs[Len(runs)].stopped

\* C1: a run during which stop was invoked never hands a record to the store:
\* the store changes only when a run that was never stopped ends.
C1_StoppedRunHandsNothing ==
    [][testHistory' # testHistory =>
          \E r \in DOMAIN runs : Ends(r) /\ ~runs[r].stopped]_vars

\* C2: from stop until start is next invoked the phase is idle.
C2_IdleFromStopToStart == StopInEffect => testPhase = "idle"

\* C3: at most one run is in progress at any time.
C3_OneRunInProgress == Cardinality({r \in DOMAIN runs : InProgress(r)}) <= 1

\* C4: the store holds at most 100 records.
C4_AtMost100 == Len(testHistory) <= 100

C4_Witness == Len(handed) > 100 /\ Len(testHistory) = 100

\* C5: after N records were handed over the store holds the min(N, 100) most
\* recent ones, the newest at index 1.
C5_MostRecentFirst ==
    LET N == Len(handed)
    IN /\ Len(testHistory) = (IF N < 100 THEN N ELSE 100)
       /\ \A j \in DOMAIN testHistory : testHistory[j] = handed[N + 1 - j]

C5_Witness ==
    /\ Len(handed) = 105
    /\ testHistory[1] = handed[105]
    /\ testHistory[100] = handed[6]
    /\ handed[5] # handed[6]

\* C6: the phase changes only one step along idle, ping, download, upload,
\* complete, idle, or to idle by stop.
PhaseOrder ==
    {<<"idle", "ping">>, <<"ping", "download">>, <<"download", "upload">>,
     <<"upload", "complete">>, <<"complete", "idle">>}

C6_PhaseOrder ==
    [][testPhase' # testPhase =>
          \/ <<testPhase, testPhase'>> \in PhaseOrder
          \/ testPhase' = "idle" /\ StopStep]_vars

\* The values Math.round(download * r * 10) / 10 takes for 0.1 <= r < 0.5,
\* in tenths, for a download of d tenths.
UploadsOf(d) == RoundDiv(d, 10) .. (d \div 2)

\* C7: the upload of every record is its own download times a ratio in
\* [0.1, 0.5), rounded to one decimal.
C7_UploadOfOwnDownload ==
    \A j \in DOMAIN testHistory :
        testHistory[j].upload \in UploadsOf(testHistory[j].download)

\* The claim's table of tiers, best first.
TierOrder == <<"excellent", "good", "fair", "poor">>

TierMatches(tier, download, ping) ==
    CASE tier = "excellent" -> download >= 1000 /\ ping <= 20
      [] tier = "good" -> download >= 500 /\ ping <= 50
      [] tier = "fair" -> download >= 250 /\ ping <= 100
      [] tier = "poor" -> TRUE

FirstMatch(download, ping) ==
    TierOrder[CHOOSE j \in DOMAIN TierOrder :
                 /\ TierMatches(TierOrder[j], download, ping)
                 /\ \A h \in 1..(j - 1) : ~TierMatches(TierOrder[h], download, ping)]

\* C8: the classifier returns the first matching tier of the table, one of
\* the four tiers, and poor exactly when download < 25 or ping > 100.
C8_FirstMatchingTier ==
    probe.quality # "none" =>
        /\ probe.quality \in Tiers
        /\ probe.quality = FirstMatch(probe.download, probe.ping)
        /\ probe.quality = "poor" <=> (probe.download < 250 \/ probe.ping > 100)

C8_Witness ==
    /\ probe.quality = "poor"
    /\ probe.download >= 1000
    /\ probe.ping = 101

\* C9: every record of the store has the quality the classifier gives for
\* its own download and ping.
C9_QualityOfRecord ==
    \A j \in DOMAIN testHistory :
        testHistory[j].quality =
            getNetworkQuality(testHistory[j].download, testHistory[j].ping)

C9_Witness ==
    \E j \in DOMAIN testHistory :
        /\ testHistory[j].download = 800
        /\ testHistory[j].ping = 15
        /\ testHistory[j].quality = "good"

\* C10: a started run that is not stopped reaches phase complete with
\* progress 100, then ends by handing its record to the head of the store and
\* setting phase idle and the running flag false; a run ends in no other way.
C10_RunCompletes ==
    /\ \A r \in 1..MaxRuns :
          Started(r) ~> (Started(r) /\ (runs[r].stopped \/ runs[r].pc = "done"))
    /\ [][\A r \in DOMAIN runs :
             /\ (runs[r].pc # "timer" /\ runs'[r].pc = "timer") =>
                   testPhase' = "complete" /\ progress' = 100
             /\ Ends(r) =>
                   /\ runs[r].pc = "timer"
                   /\ handed' = Append(handed, runs[r].results)
                   /\ testHistory' # <<>> /\ Head(testHistory') = runs[r].results
                   /\ testPhase' = "idle"
                   /\ ~isTestRunning']_vars

C10_Witness ==
    \E r \in DOMAIN runs :
        /\ runs[r].pc = "done" /\ ~runs[r].stopped
        /\ handed = <<runs[r].results>> /\ testHistory = <<runs[r].results>>
        /\ testPhase = "idle" /\ ~isTestRunning

\* C11: from stop until start is next invoked the live result set is empty and
\* progress is 0.
C11_DiscardedFromStopToStart ==
    StopInEffect => (currentTest = Empty /\ progress = 0)

\* C12: the store changes only when a completed record is handed over, and
\* then only by that record going in front of the records already there, which
\* keep their fields and their order.  Filtering, searching, sorting, the
\* exports, the Clear button, stop and the renders of the charts leave it as
\* it is.
C12_OnlyHandOverChangesStore ==
    [][\/ testHistory' = testHistory
       \/ /\ Len(handed') = Len(handed) + 1
          /\ testHistory' # <<>>
          /\ Head(testHistory') = handed'[Len(handed')]
          /\ Tail(testHistory') = SubSeq(testHistory, 1, Len(testHistory') - 1)]_vars

\* The history is shown in another order than the store's, after a click on
\* a column header.
C12_Witness ==
    /\ event.op = "handleSort"
    /\ Len(filteredData) = Len(testHistory)
    /\ filteredData # testHistory
    /\ testHistory = reverse(handed)

\* The records that pass the current filter, in store order.
Filtered == filter(testHistory, view.searchTerm, view.qualityFilter)

\* No two records of the sequence have the same value of field f.
Distinct(array, f) ==
    \A j, k \in DOMAIN array : j # k => array[j][f] # array[k][f]

\* C13 as stated: for any store and any filter, the view sorted by download
\* ascending is exactly the reverse of the view sorted by download descending.
C13_AscendingIsReverseOfDescending ==
    sort(Filtered, "download", "asc") = reverse(sort(Filtered, "download", "desc"))

\* C13, amended: the download values of the ascending view are the reverse of
\* those of the descending view, and the views themselves are each other's
\* reverse when no two records that pass the filter have the same download.
C13_ReverseUnlessTies ==
    LET asc  == sort(Filtered, "download", "asc")
        desc == sort(Filtered, "download", "desc")
    IN /\ Column(asc, "download") = reverse(Column(desc, "download"))
       /\ Distinct(Filtered, "download") => asc = reverse(desc)

\* The history is shown sorted by download, ascending, two records of different
\* download in it, in another order than the store's.
C13_Witness ==
    /\ view.sortField = "download"
    /\ view.sortOrder = "asc"
    /\ Len(filteredData) >= 2
    /\ Distinct(Filtered, "download")
    /\ filteredData # Filtered

\* C14: the sort state starts as timestamp, descending.  A click on the header
\* of the active field flips the direction and keeps the field; a click on
\* another header makes that field the active one, descending, whatever the
\* direction was.  Search term and quality filter stay as they are.
C14_HandleSort ==
    /\ view.sortField = "timestamp" /\ view.sortOrder = "desc"
    /\ [][(event'.op = "handleSort" /\ view' # view) =>
             /\ view'.searchTerm = view.searchTerm
             /\ view'.qualityFilter = view.qualityFilter
             /\ IF view.sortField = event'.arg
                THEN /\ view'.sortField = view.sortField
                     /\ view'.sortOrder = (IF view.sortOrder = "asc" THEN "desc" ELSE "asc")
                ELSE /\ view'.sortField = event'.arg
                     /\ view'.sortOrder = "desc"]_vars

\* The header of ping was clicked while ping was the active field, descending.
C14_Witness ==
    /\ event.op = "handleSort"
    /\ event.arg = "ping"
    /\ view.sortField = "ping"
    /\ view.sortOrder = "asc"

\* C15: two clicks in succession on the header of the active field, nothing
\* else done in between, bring back the sort state and the displayed order
\* that were there before the first click.
C15_SameKeyTwice ==
    [][(/\ event.op = "handleSort"
        /\ event.out.sortField = event.arg
        /\ event'.op = "handleSort"
        /\ event'.arg = event.arg
        /\ event' # event) =>
          /\ view' = event.out
          /\ TestHistoryRender(testHistory', view').filteredData =
                TestHistoryRender(testHistory, event.out).filteredData]_vars

\* The second of two such clicks has just happened: it replaced ascending,
\* which only a click on the active field sets, and the view is back to
\* descending, two records in another order than after the first click.
C15_Witness ==
    /\ event.op = "handleSort"
    /\ event.out.sortField = event.arg
    /\ event.out.sortOrder = "asc"
    /\ view.sortOrder = "desc"
    /\ view.sortField = "download"
    /\ Len(filteredData) >= 2
    /\ filteredData # TestHistoryRender(testHistory, event.out).filteredData

\* The text contains the term, letter case ignored.
Contains(text, term) == includes(toLowerCase(text), toLowerCase(term))

\* The store positions whose record is of the selected tier.
OfTier == {j \in DOMAIN testHistory : testHistory[j].quality = view.qualityFilter}

\* The store positions whose quality label or formatted date contains the
\* search term.
Found ==
    {j \in DOMAIN testHistory :
        \/ Contains(Chars(testHistory[j].quality), view.searchTerm)
        \/ Contains(toLocaleDateString(testHistory[j].timestamp), view.searchTerm)}

\* The records of the view are the store records at these positions, each once.
ViewIs(positions) ==
    /\ Len(filteredData) = Cardinality(positions)
    /\ {filteredData[k] : k \in DOMAIN filteredData} = {testHistory[j] : j \in positions}

\* C16: with the quality filter on a tier the view holds only records of that
\* tier; with a search term as well it holds exactly the records that are of
\* the tier and contain the term in their quality label or formatted date;
\* with filter "all" and no term it holds every record of the store.
C16_FilterAndSearch ==
    /\ view.qualityFilter \in Tiers =>
          \A k \in DOMAIN filteredData : filteredData[k].quality = view.qualityFilter
    /\ (view.qualityFilter \in Tiers /\ view.searchTerm # <<>>) =>
          ViewIs(OfTier \cap Found)
    /\ (view.qualityFilter \in Tiers /\ view.searchTerm = <<>>) => ViewIs(OfTier)
    /\ (view.qualityFilter = "all" /\ view.searchTerm # <<>>) => ViewIs(Found)
    /\ (view.qualityFilter = "all" /\ view.searchTerm = <<>>) =>
          ViewIs(DOMAIN testHistory)

\* A tier and a search term are set; one record has the term but is of another
\* tier, one is of the tier and has the term.
C16_Witness ==
    /\ view.qualityFilter \in Tiers
    /\ view.searchTerm # <<>>
    /\ Found \ OfTier # {}
    /\ OfTier \cap Found # {}
    /\ Len(filteredData) = 1

\* A cell of the CSV file is a quoted field: it starts and ends with a quote
\* and has none in between.
IsQuotedField(cell) ==
    /\ Len(cell) >= 2
    /\ cell[1] = "\"" /\ cell[Len(cell)] = "\""
    /\ \A c \in 2..(Len(cell) - 1) : cell[c] # "\""

\* C17: the CSV file has the 8-column header row, then one row per record of
\* the filtered and sorted view, in view order, every row 8 quoted fields; the
\* JSON file has the records of the view, in view order, with all their
\* fields.  Neither has a record that the filter excludes.
C17_ExportsTheView ==
    /\ event.op = "exportToCSV" =>
          /\ Len(event.out) = 1 + Len(filteredData)
          /\ \A r \in DOMAIN event.out :
                /\ Len(event.out[r]) = 8
                /\ \A c \in 1..8 : IsQuotedField(event.out[r][c])
          /\ \A c \in 1..8 : event.out[1][c] = <<"\"", headers[c][1], "\"">>
          /\ \A k \in DOMAIN filteredData :
                \A c \in 1..8 : event.out[k + 1][c] = Quoted(csvRow(filteredData[k])[c])
          /\ Len(event.out) <= 1 + Cardinality(OfTier \cup {j \in DOMAIN testHistory :
                                                              view.qualityFilter = "all"})
    /\ event.op = "exportToJSON" =>
          /\ Len(event.out) = Len(filteredData)
          /\ \A k \in DOMAIN filteredData :
                /\ Len(event.out[k]) = 7
                /\ \A f \in DOMAIN filteredData[k] :
                      \E p \in 1..7 : event.out[k][p] = <<f, filteredData[k][f]>>

\* A CSV file was exported while the filter hid one of two records.
C17_Witness ==
    /\ event.op = "exportToCSV"
    /\ Len(testHistory) = 2
    /\ Len(filteredData) = 1
    /\ Len(event.out) = 2

\* How far an invocation of runSpeedTest has come: 1 measuring ping, 2
\* measuring download, 3 measuring upload, 4 complete (its 1 s timer is
\* pending), 5 ended.
Stage(pc) ==
    CASE pc \in {"pingFetch", "pingDelay"} -> 1
      [] pc \in {"dlWait", "dlSample"}     -> 2
      [] pc = "ulWait"                     -> 3
      [] pc = "timer"                      -> 4
      [] pc = "done"                       -> 5

NetworkDataFields ==
    {"download", "upload", "ping", "jitter", "packetLoss", "timestamp", "quality"}

\* C18: an invocation starts in ping and goes on one stage at a time, through
\* download and upload, and the step that takes it to complete sets phase
\* complete and progress 100.  A record enters the store only in a step in
\* which an invocation that is at complete ends, and it is that invocation's
\* record, with all seven fields.
C18_HandOverOnlyAfterComplete ==
    [][/\ \A r \in DOMAIN runs' :
             IF r \in DOMAIN runs
             THEN /\ Stage(runs'[r].pc) \in {Stage(runs[r].pc), Stage(runs[r].pc) + 1}
                  /\ (Stage(runs[r].pc) = 3 /\ Stage(runs'[r].pc) = 4) =>
                        testPhase' = "complete" /\ progress' = 100
             ELSE Stage(runs'[r].pc) = 1
       /\ (testHistory' # testHistory \/ handed' # handed) =>
             \E r \in DOMAIN runs :
                /\ Stage(runs[r].pc) = 4 /\ Stage(runs'[r].pc) = 5
                /\ DOMAIN runs[r].results = NetworkDataFields
                /\ handed' = Append(handed, runs[r].results)
                /\ testHistory' # <<>> /\ Head(testHistory') = runs[r].results]_vars

\* A run has ended and its record is in the store.
C18_Witness ==
    /\ runs # <<>>
    /\ runs[1].pc = "done"
    /\ testHistory # <<>>
    /\ testHistory[1] = runs[1].results
    /\ DOMAIN testHistory[1] = NetworkDataFields

\* C19: progress is one of 0, 25, 65, 90 and 100; while the running flag is
\* true it never decreases, and it is 100 exactly when the phase is complete.
C19_ProgressOfTheRun ==
    [][/\ progress' \in {0, 25, 65, 90, 100}
       /\ isTestRunning' => (progress' = 100 <=> testPhase' = "complete")
       /\ (isTestRunning /\ isTestRunning') => progress' >= progress]_vars

\* C20: every iteration of measurePing adds one sample, the measured time when
\* the fetch settles and a fallback when it fails, whatever happened in the
\* other iterations; measurePing returns with exactly 5 samples, and an
\* invocation that has not ended always has a next step, none of them the
\* error path.
C20_FallbackPerSample ==
    \A r \in DOMAIN runs :
        /\ runs[r].pc = "pingFetch" =>
              /\ runs[r].i < PingSamples
              /\ Len(runs[r].measurements) = runs[r].i
              /\ ENABLED PingFetchSettled(r)
              /\ ENABLED PingFetchFailed(r)
        /\ runs[r].pc = "pingDelay" =>
              /\ Len(runs[r].measurements) = runs[r].i + 1
              /\ ENABLED PingDone(r) <=> Len(runs[r].measurements) = PingSamples
        /\ \A j \in DOMAIN runs[r].measurements :
              runs[r].measurements[j] \in FetchMs \cup FallbackMs
        /\ InProgress(r) => ENABLED RunStep(r)
        /\ Stage(runs[r].pc) >= 2 => {"ping", "jitter"} \subseteq DOMAIN runs[r].results

\* All five fetches of a run failed (its ping is the mean of five fallback
\* samples), and the run went on to complete and handed its record over.
C20_Witness ==
    /\ runs # <<>>
    /\ runs[1].pc = "done"
    /\ ~runs[1].stopped
    /\ testHistory # <<>>
    /\ testHistory[1].ping \in FallbackMs
    /\ testHistory[1].jitter = 0

\* The chart series and the statistics of the current render.
Charts == PerformanceChartsRender(testHistory)

\* C21: the chart series has min(20, N) points for N records in the store;
\* point j, numbered j, shows the j-th oldest of the 20 most recent records
\* handed over, so the last point is the newest record, and no record older
\* than those 20 is in it.
C21_ChartSeries ==
    LET N == Len(handed)
        k == IF Len(testHistory) < 20 THEN Len(testHistory) ELSE 20
    IN /\ Len(Charts.chartData) = k
       /\ \A j \in 1..k :
             LET point  == Charts.chartData[j]
                 record == handed[N - k + j]
             IN /\ point.test = j
                /\ point.download = record.download
                /\ point.upload = record.upload
                /\ point.ping = record.ping
                /\ point.jitter = record.jitter
                /\ point.packetLoss = record.packetLoss
                /\ point.quality = record.quality
                /\ point.timestamp = toLocaleTimeString(record.timestamp)

\* The store holds more than 20 records, the oldest of them not in the chart,
\* whose first point is an older record than its last.
C21_Witness ==
    /\ Len(testHistory) > 20
    /\ Len(Charts.chartData) = 20
    /\ Charts.chartData[1].download < Charts.chartData[20].download
    /\ Charts.chartData[20].download = testHistory[1].download
    /\ \A j \in 1..20 : Charts.chartData[j].ping # testHistory[21].ping

\* The sum of field f over the records at the given store positions.
RECURSIVE Total(_, _)
Total(positions, f) ==
    IF positions = {} THEN 0
    ELSE LET j == CHOOSE p \in positions : TRUE
         IN testHistory[j][f] + Total(positions \ {j}, f)

\* C22: with an empty store there are no statistics; otherwise each mean is
\* the sum over every record of the store divided by their number, the
\* maximum download is that of some record and no record has more, the
\* minimum ping is that of some record and no record has less.
C22_StatsOfWholeStore ==
    IF testHistory = <<>>
    THEN Charts.stats = {}
    ELSE /\ Cardinality(Charts.stats) = 1
         /\ \A s \in Charts.stats :
               /\ s.avgDownload = <<Total(DOMAIN testHistory, "download"), Len(testHistory)>>
               /\ s.avgUpload = <<Total(DOMAIN testHistory, "upload"), Len(testHistory)>>
               /\ s.avgPing = <<Total(DOMAIN testHistory, "ping"), Len(testHistory)>>
               /\ \E j \in DOMAIN testHistory : testHistory[j].download = s.maxDownload
               /\ \A j \in DOMAIN testHistory : testHistory[j].download <= s.maxDownload
               /\ \E j \in DOMAIN testHistory : testHistory[j].ping = s.minPing
               /\ \A j \in DOMAIN testHistory : testHistory[j].ping >= s.minPing

\* The store holds more records than the chart shows, and the minimum ping is
\* that of a record that is not in the chart.
C22_Witness ==
    /\ Len(testHistory) > 20
    /\ \E s \in Charts.stats :
          /\ s.avgPing[2] = Len(testHistory)
          /\ \A j \in DOMAIN Charts.chartData : Charts.chartData[j].ping > s.minPing

\* C23: when the IP lookup fails the snapshot is created all the same, with
\* publicIp "Unknown"; when it succeeds publicIp is the address looked up.  In
\* both cases the other six fields are what the browser and the fixed texts
\* give.  Nothing else changes the snapshot.
C23_UnknownPublicIp ==
    [][/\ (event'.op = "fetchNetworkInfo" /\ event' # event) =>
             /\ Cardinality(networkInfo') = 1
             /\ \A info \in networkInfo' :
                   /\ DOMAIN info = {"publicIp", "localIp", "hostname", "os", "isp",
                                     "connectionType", "location"}
                   /\ event'.arg = "failed" => info.publicIp = "Unknown"
                   /\ event'.arg = "decoded" => info.publicIp \in PublicIPs
                   /\ info.localIp = "192.168.1.1"
                   /\ info.hostname = "syntaxsurfer2.github.io"
                   /\ info.os = "Linux"
                   /\ info.isp = "Detecting ISP..."
                   /\ info.connectionType = "4g"
                   /\ info.location = "Detecting location..."
       /\ networkInfo' # networkInfo =>
             (networkInfo = {} /\ event'.op = "fetchNetworkInfo" /\ event' # event)]_vars

\* The lookup failed and the snapshot is there, a run having started since.
C23_Witness ==
    /\ event.op = "fetchNetworkInfo"
    /\ event.arg = "failed"
    /\ \E info \in networkInfo : info.publicIp = "Unknown" /\ info.os = "Linux"
    /\ runs # <<>>

C25_RunningIffNotIdle == isTestRunning <=> testPhase # "idle"

\* The ranking excellent > good > fair > poor as a number, higher is better.
TierRank(tier) == 5 - (CHOOSE j \in DOMAIN TierOrder : TierOrder[j] = tier)

\* The downloads compared with a probed download: itself, the next value of
\* the grid and every threshold of the classifier not below it.
AtLeast(download) ==
    {download, download + 1} \cup {d \in {250, 500, 1000} : d >= download}

\* The pings compared with a probed ping: itself, the previous value of the
\* grid and every threshold of the classifier not above it.
AtMost(ping) ==
    {p \in {ping, ping - 1, 100, 50, 20, 0} : 0 <= p /\ p <= ping}

\* C26: the classifier is monotone: an input with at least the download and
\* at most the ping of a classified input gets the same tier or a better one.
\* Each input of the grid is compared with its neighbours in both directions
\* and with the thresholds beyond it, which chains to any pair of the grid.
C26_Monotone ==
    probe.quality # "none" =>
        \A download2 \in AtLeast(probe.download), ping2 \in AtMost(probe.ping) :
            TierRank(getNetworkQuality(download2, ping2)) >= TierRank(probe.quality)

\* An input just under the excellent tier whose next download is excellent.
C26_Witness ==
    /\ probe.quality = "good"
    /\ probe.download = 999
    /\ probe.ping = 20
    /\ TierRank(getNetworkQuality(probe.download + 1, probe.ping)) > TierRank(probe.quality)

\* The four labels in the order of their strings.
LabelOrder == <<"excellent", "fair", "good", "poor">>

\* The place of a label in an order of the labels.
PlaceIn(order, label) == CHOOSE j \in DOMAIN order : order[j] = label

\* C27: sorted by quality, the history is in the order of the labels as
\* strings: ascending excellent, fair, good, poor, descending the reverse.  In
\* particular fair comes before good ascending and after it descending, the
\* other way round than in the ranking of the tiers.
C27_QualitySortedAsStrings ==
    view.sortField = "quality" =>
        LET labels == Column(filteredData, "quality")
        IN /\ \A j, k \in DOMAIN labels :
                 j < k => IF view.sortOrder = "asc"
                          THEN PlaceIn(LabelOrder, labels[j]) <= PlaceIn(LabelOrder, labels[k])
                          ELSE PlaceIn(LabelOrder, labels[j]) >= PlaceIn(LabelOrder, labels[k])
           /\ \A j, k \in DOMAIN labels :
                 (labels[j] = "fair" /\ labels[k] = "good") =>
                     /\ (j < k) <=> view.sortOrder = "asc"
                     /\ PlaceIn(TierOrder, labels[j]) > PlaceIn(TierOrder, labels[k])

\* The history sorted by quality, ascending, shows a fair record before a good
\* record that the store holds in front of it.
C27_Witness ==
    /\ view.sortField = "quality"
    /\ view.sortOrder = "asc"
    /\ \E j, k \in DOMAIN filteredData :
          /\ j < k
          /\ filteredData[j].quality = "fair"
          /\ filteredData[k].quality = "good"
          /\ filteredData[j].timestamp < filteredData[k].timestamp

\* The place of a record in the store; the timestamps of the store differ.
StorePlace(test) == CHOOSE j \in DOMAIN testHistory : testHistory[j] = test

\* C28: the sort is stable with respect to store order.  Under every quality
\* filter, two shown records with the same value of the active sort field are
\* in the order the store has them in, the more recent first, whether the
\* direction is ascending or descending.
C28_StableSort ==
    \A value \in QualityFilters :
        LET shown == TestHistoryRender(testHistory,
                                       [view EXCEPT !.qualityFilter = value]).filteredData
        IN \A j, k \in DOMAIN shown :
              (j < k /\ shown[j][view.sortField] = shown[k][view.sortField]) =>
                  /\ StorePlace(shown[j]) < StorePlace(shown[k])
                  /\ shown[j].timestamp > shown[k].timestamp

\* The history is shown sorted by download, descending, in another order than
\* the store's, with two records of the same download in it that the store
\* holds apart.
C28_Witness ==
    /\ view.sortField = "download"
    /\ view.sortOrder = "desc"
    /\ filteredData # testHistory
    /\ \E j, k \in DOMAIN filteredData :
          /\ j < k
          /\ filteredData[j].download = filteredData[k].download
          /\ StorePlace(filteredData[k]) > StorePlace(filteredData[j]) + 1

====
